---- MODULE Spec2Model ----
(***************************************************************************)
(* Model of the billing engine: the Loan entity (loan.go) and the Engine   *)
(* registry (engine.go) that guards a map of loans with a sync.RWMutex.    *)
(*                                                                         *)
(* Time is counted in whole hours.  Money is counted in whole currency     *)
(* units and the interest rate in whole percent; the configurations that   *)
(* are enumerated make every float64 operation of the code exact.          *)
(***************************************************************************)
EXTENDS Integers, Sequences, FiniteSets, TLC

(* ---------------------------------------------------------------------- *)
(* Bounds of the model                                                     *)
(* ---------------------------------------------------------------------- *)
MaxTicks == 2
MaxPayments == 2

(* ---------------------------------------------------------------------- *)
(* Program constants                                                       *)
(* ---------------------------------------------------------------------- *)
DaysPerWeek == 7
HoursPerDay == 24
DelinquencyThreshold == 2 * DaysPerWeek * HoursPerDay

Active == "Active"
Delinquent == "Delinquent"
Closed == "Closed"
LoanStatus == {Active, Delinquent, Closed}

(* the error values of the package; nil is the absence of an error *)
Nil == [msg |-> "nil", expectedAmount |-> 0, missedPayments |-> 0]
ErrNotFound == [msg |-> "loan not found", expectedAmount |-> 0, missedPayments |-> 0]
ErrDuplicate == [msg |-> "loan with this ID already exists", expectedAmount |-> 0, missedPayments |-> 0]
ErrIncorrectAmount == [msg |-> "payment amount must be equal to the weekly payment", expectedAmount |-> 0, missedPayments |-> 0]
ErrAlreadyPaid == [msg |-> "loan is already fully paid", expectedAmount |-> 0, missedPayments |-> 0]
ErrInsufficient(expectedAmount, missedPayments) ==
    [msg |-> "payment amount must be at least %.2f for %d missed payments",
     expectedAmount |-> expectedAmount, missedPayments |-> missedPayments]

(* ---------------------------------------------------------------------- *)
(* Inputs                                                                  *)
(* ---------------------------------------------------------------------- *)
Threads == {"t1", "t2"}
IDs == {"loan1", "loan2"}
UUIDs == {"uuid"}

(* The instants at which the clock is read, in hours: 0, 1.5 weeks, 3.5 weeks,  *)
(* 6 weeks, ...  The gaps between them are 1.5 weeks (inside week 1), exactly  *)
(* 2 weeks (the delinquency threshold itself) and 3.5 weeks (beyond it).       *)
HalfWeek == (DaysPerWeek * HoursPerDay) \div 2
TimeAt(i) == HalfWeek * ((i * (i + 5)) \div 2)

(* Config values handed to WithLoanConfig; InterestRate is in percent *)
ValidConfigs ==
    { [Principal |-> 20, InterestRate |-> 10, TotalWeeks |-> 2] }
Configs == ValidConfigs

Amounts == {10, 11, 22}

DefaultConfig == [Principal |-> 5000000, InterestRate |-> 10, TotalWeeks |-> 50]

(* ---------------------------------------------------------------------- *)
(* Loan                                                                    *)
(* ---------------------------------------------------------------------- *)
NoLoan == [id |-> "none"]

WithLoanID(id) == [kind |-> "WithLoanID", id |-> id, config |-> DefaultConfig]
WithLoanConfig(config) == [kind |-> "WithLoanConfig", id |-> "", config |-> config]

TotalAmount(principal, interestRate) ==
    principal + (principal * interestRate) \div 100

(* mutant: WithLoanID also puts the default configuration back *)
ApplyOptionResetting(l, option) ==
    IF option.kind = "WithLoanID"
    THEN [l EXCEPT !.id = option.id,
                   !.principal = option.config.Principal,
                   !.interestRate = option.config.InterestRate,
                   !.totalWeeks = option.config.TotalWeeks,
                   !.weeklyPayment =
                       TotalAmount(option.config.Principal, option.config.InterestRate)
                           \div option.config.TotalWeeks,
                   !.outstandingDebt =
                       TotalAmount(option.config.Principal, option.config.InterestRate)]
    ELSE [l EXCEPT !.principal = option.config.Principal,
                   !.interestRate = option.config.InterestRate,
                   !.totalWeeks = option.config.TotalWeeks,
                   !.weeklyPayment =
                       TotalAmount(option.config.Principal, option.config.InterestRate)
                           \div option.config.TotalWeeks,
                   !.outstandingDebt =
                       TotalAmount(option.config.Principal, option.config.InterestRate)]

ApplyOption(l, option) ==
    IF option.kind = "WithLoanID"
    THEN [l EXCEPT !.id = option.id]
    ELSE [l EXCEPT !.principal = option.config.Principal,
                   !.interestRate = option.config.InterestRate,
                   !.totalWeeks = option.config.TotalWeeks,
                   !.weeklyPayment =
                       TotalAmount(option.config.Principal, option.config.InterestRate)
                           \div option.config.TotalWeeks,
                   !.outstandingDebt =
                       TotalAmount(option.config.Principal, option.config.InterestRate)]

RECURSIVE ApplyOptions(_, _)
ApplyOptions(l, options) ==
    IF options = <<>> THEN l
    ELSE ApplyOptions(ApplyOption(l, Head(options)), Tail(options))

NewLoan(uuid, now, options) ==
    ApplyOptions(
        [id |-> uuid,
         principal |-> DefaultConfig.Principal,
         interestRate |-> DefaultConfig.InterestRate,
         totalWeeks |-> DefaultConfig.TotalWeeks,
         weeklyPayment |->
             TotalAmount(DefaultConfig.Principal, DefaultConfig.InterestRate)
                 \div DefaultConfig.TotalWeeks,
         startDate |-> now,
         payments |-> <<>>,
         outstandingDebt |->
             TotalAmount(DefaultConfig.Principal, DefaultConfig.InterestRate),
         status |-> Active],
        options)

(* mutant: delinquent from the threshold on, not only past it *)
IsDelinquentFromThreshold(l, now) ==
    IF Len(l.payments) > 0
    THEN now - l.payments[Len(l.payments)].Date >= DelinquencyThreshold
    ELSE now - l.startDate >= DelinquencyThreshold

IsDelinquent(l, now) ==
    IF Len(l.payments) > 0
    THEN now - l.payments[Len(l.payments)].Date > DelinquencyThreshold
    ELSE now - l.startDate > DelinquencyThreshold

(* mutant of the older variant: the amounts of the entries are not looked at *)
IsDelinquentByCount(l, now) ==
    IF Len(l.payments) < 2 THEN FALSE
    ELSE now - (l.startDate + (Len(l.payments) - 1) * DaysPerWeek * HoursPerDay)
             > DelinquencyThreshold

(* Loan.IsDelinquent of the older variant of the loan, with exported fields *)
IsDelinquentByZeroEntries(l, now) ==
    IF Len(l.payments) < 2 THEN FALSE
    ELSE /\ now - (l.startDate + (Len(l.payments) - 1) * DaysPerWeek * HoursPerDay)
                > DelinquencyThreshold
         /\ l.payments[Len(l.payments) - 1].Amount = 0
         /\ l.payments[Len(l.payments)].Amount = 0

CurrentWeek(l, now) == (now - l.startDate) \div (DaysPerWeek * HoursPerDay)

MissedPayments(l, now) == (CurrentWeek(l, now) + 1) - Len(l.payments)

(* mutants of the amount check: the minimum is one installment whatever is   *)
(* missed; an on-schedule payment only has to reach the installment          *)
AmountErrorOneInstallment(l, amount, now) ==
    IF MissedPayments(l, now) > 0
    THEN IF amount < l.weeklyPayment
         THEN ErrInsufficient(l.weeklyPayment, MissedPayments(l, now))
         ELSE Nil
    ELSE IF amount # l.weeklyPayment THEN ErrIncorrectAmount ELSE Nil

AmountErrorAtLeast(l, amount, now) ==
    IF MissedPayments(l, now) > 0
    THEN IF amount < MissedPayments(l, now) * l.weeklyPayment
         THEN ErrInsufficient(MissedPayments(l, now) * l.weeklyPayment,
                              MissedPayments(l, now))
         ELSE Nil
    ELSE IF amount < l.weeklyPayment THEN ErrIncorrectAmount ELSE Nil

(* mutant: with installments missed, any amount passes *)
AmountErrorNoMinimum(l, amount, now) ==
    IF MissedPayments(l, now) > 0
    THEN Nil
    ELSE IF amount # l.weeklyPayment THEN ErrIncorrectAmount ELSE Nil

(* lines 183-190 of MakePayment: the error of the amount check, or Nil *)
AmountError(l, amount, now) ==
    IF MissedPayments(l, now) > 0
    THEN IF amount < MissedPayments(l, now) * l.weeklyPayment
         THEN ErrInsufficient(MissedPayments(l, now) * l.weeklyPayment,
                              MissedPayments(l, now))
         ELSE Nil
    ELSE IF amount # l.weeklyPayment THEN ErrIncorrectAmount ELSE Nil

(* mutant: the settled check is missing *)
SettledErrorNever(l) == Nil

(* lines 192-194 of MakePayment *)
SettledError(l) == IF l.outstandingDebt <= 0 THEN ErrAlreadyPaid ELSE Nil

(* mutant: the entry is stamped with the origination time *)
AppendPaymentStale(l, amount, now) ==
    [l EXCEPT !.payments = Append(l.payments, [Amount |-> amount, Date |-> l.startDate])]

(* mutant: a payment is entered once for each installment it covers *)
AppendPaymentPerInstallment(l, amount, now) ==
    [l EXCEPT !.payments =
        [i \in 1..(Len(l.payments) + amount \div l.weeklyPayment) |->
            IF i <= Len(l.payments) THEN l.payments[i]
            ELSE [Amount |-> l.weeklyPayment, Date |-> now]]]

AppendPayment(l, amount, now) ==
    [l EXCEPT !.payments = Append(l.payments, [Amount |-> amount, Date |-> now])]

(* mutant: the balance is clamped at zero *)
SubtractDebtClamped(l, amount) ==
    [l EXCEPT !.outstandingDebt =
        IF l.outstandingDebt - amount < 0 THEN 0 ELSE l.outstandingDebt - amount]

(* mutant: the installment is recomputed from what is left *)
SubtractDebtRecompute(l, amount) ==
    [l EXCEPT !.outstandingDebt = l.outstandingDebt - amount,
              !.weeklyPayment = (l.outstandingDebt - amount) \div l.totalWeeks]

SubtractDebt(l, amount) ==
    [l EXCEPT !.outstandingDebt = l.outstandingDebt - amount]

(* mutant: a balance of exactly zero does not close the loan *)
UpdateStatusBelowZero(l, now) ==
    [l EXCEPT !.status = IF l.outstandingDebt < 0 THEN Closed
                         ELSE IF IsDelinquent(l, now) THEN Delinquent
                         ELSE Active]

(* mutant: delinquency is judged from origination, not from the last payment *)
UpdateStatusSinceOrigination(l, now) ==
    [l EXCEPT !.status = IF l.outstandingDebt <= 0 THEN Closed
                         ELSE IF now - l.startDate > DelinquencyThreshold THEN Delinquent
                         ELSE Active]

UpdateStatus(l, now) ==
    [l EXCEPT !.status = IF l.outstandingDebt <= 0 THEN Closed
                         ELSE IF IsDelinquent(l, now) THEN Delinquent
                         ELSE Active]

(* mutant: the ledger's own slice is returned *)
GetPaymentsShared(l) == [shared |-> TRUE, entries |-> l.payments]

(* the returned slice: its entries, and whether it shares the ledger's array *)
GetPayments(l) == [shared |-> FALSE, entries |-> l.payments]

RECURSIVE Repeat(_, _)
Repeat(x, n) == IF n <= 0 THEN <<>> ELSE Append(Repeat(x, n - 1), x)

(* mutant: only the installments not yet paid are listed *)
GetBillingScheduleRemaining(l) == Repeat(l.weeklyPayment, l.totalWeeks - Len(l.payments))

GetBillingSchedule(l) == Repeat(l.weeklyPayment, l.totalWeeks)

(* ---------------------------------------------------------------------- *)
(* Engine                                                                  *)
(* ---------------------------------------------------------------------- *)
VARIABLES
    clock,      \* time.Now(), in hours
    loans,      \* Engine.loans: identifier -> Loan, NoLoan where there is no key
    writer,     \* Engine.mutex: the threads holding it exclusively
    readers,    \* Engine.mutex: the threads holding it shared
    th,         \* the position and locals of every calling thread
    accepted,   \* history: per identifier, the amounts of the calls that returned nil
    created     \* history: per identifier, the loans returned by successful CreateLoan calls

vars == <<clock, loans, writer, readers, th, accepted, created>>

Keys == IDs \cup UUIDs

ReadOps == {"GetLoan", "GetOutstanding", "IsDelinquent", "GetBillingSchedule", "GetLoanStatus"}

Idle == [pc |-> "idle", op |-> "none", id |-> "", amount |-> 0, options |-> <<>>,
         loan |-> NoLoan, pre |-> <<>>, ret |-> Nil, val |-> <<>>]

Exists(id) == loans[id] # NoLoan

Init ==
    /\ clock = 0
    /\ loans = [k \in Keys |-> NoLoan]
    /\ writer = {}
    /\ readers = {}
    /\ th = [t \in Threads |-> Idle]
    /\ accepted = [k \in Keys |-> <<>>]
    /\ created = [k \in Keys |-> <<>>]

(* mutants of the lock: writers do not exclude each other; readers do not   *)
(* wait for the writer                                                       *)
CanLockShared == readers = {}
CanRLockAlways == TRUE

(* sync.RWMutex *)
CanLock == writer = {} /\ readers = {}
CanRLock == writer = {}

Tick ==
    /\ \E i \in 1..MaxTicks : clock = TimeAt(i - 1) /\ clock' = TimeAt(i)
    /\ UNCHANGED <<loans, writer, readers, th, accepted, created>>

(* the option lists handed to CreateLoan *)
OptionLists ==
    { <<WithLoanID(i), WithLoanConfig(c)>> : i \in IDs, c \in Configs }
    \cup { <<WithLoanConfig(c), WithLoanID(i)>> : i \in IDs, c \in Configs }

(* ---- Engine.CreateLoan ---- *)
CreateLoan_New(t) ==
    /\ th[t].pc = "idle"
    /\ \E options \in OptionLists, uuid \in UUIDs :
          th' = [th EXCEPT ![t] = [Idle EXCEPT !.pc = "lock", !.op = "CreateLoan",
                                               !.loan = NewLoan(uuid, clock, options),
                                               !.id = NewLoan(uuid, clock, options).id]]
    /\ UNCHANGED <<clock, loans, writer, readers, accepted, created>>

CreateLoan_Lock(t) ==
    /\ th[t].pc = "lock"
    /\ th[t].op = "CreateLoan"
    /\ CanLock
    /\ writer' = writer \cup {t}
    /\ th' = [th EXCEPT ![t].pc = "insert", ![t].pre = loans]
    /\ UNCHANGED <<clock, loans, readers, accepted, created>>

(* mutant: a duplicate is reported and the registered loan is dropped *)
CreateLoan_InsertEvict(t) ==
    /\ th[t].pc = "insert"
    /\ IF Exists(th[t].id)
       THEN /\ loans' = [loans EXCEPT ![th[t].id] = NoLoan]
            /\ th' = [th EXCEPT ![t].pc = "unlock", ![t].ret = ErrDuplicate,
                                ![t].val = NoLoan.id]
            /\ UNCHANGED created
       ELSE /\ loans' = [loans EXCEPT ![th[t].id] = th[t].loan]
            /\ th' = [th EXCEPT ![t].pc = "unlock", ![t].ret = Nil,
                                ![t].val = th[t].id]
            /\ created' = [created EXCEPT ![th[t].id] = Append(@, th[t].loan)]
    /\ UNCHANGED <<clock, writer, readers, accepted>>

(* mutant: a duplicate is reported, but the new loan replaces the registered one *)
CreateLoan_InsertOverwrite(t) ==
    /\ th[t].pc = "insert"
    /\ loans' = [loans EXCEPT ![th[t].id] = th[t].loan]
    /\ IF Exists(th[t].id)
       THEN /\ th' = [th EXCEPT ![t].pc = "unlock", ![t].ret = ErrDuplicate,
                                ![t].val = NoLoan.id]
            /\ UNCHANGED created
       ELSE /\ th' = [th EXCEPT ![t].pc = "unlock", ![t].ret = Nil,
                                ![t].val = th[t].id]
            /\ created' = [created EXCEPT ![th[t].id] = Append(@, th[t].loan)]
    /\ UNCHANGED <<clock, writer, readers, accepted>>

(* mutant: the existence test is missing *)
CreateLoan_InsertBlind(t) ==
    /\ th[t].pc = "insert"
    /\ loans' = [loans EXCEPT ![th[t].id] = th[t].loan]
    /\ th' = [th EXCEPT ![t].pc = "unlock", ![t].ret = Nil, ![t].val = th[t].id]
    /\ created' = [created EXCEPT ![th[t].id] = Append(@, th[t].loan)]
    /\ UNCHANGED <<clock, writer, readers, accepted>>

CreateLoan_Insert(t) ==
    /\ th[t].pc = "insert"
    /\ IF Exists(th[t].id)
       THEN /\ th' = [th EXCEPT ![t].pc = "unlock", ![t].ret = ErrDuplicate,
                                ![t].val = NoLoan.id]
            /\ UNCHANGED <<loans, created>>
       ELSE /\ loans' = [loans EXCEPT ![th[t].id] = th[t].loan]
            /\ th' = [th EXCEPT ![t].pc = "unlock", ![t].ret = Nil,
                                ![t].val = th[t].id]
            /\ created' = [created EXCEPT ![th[t].id] = Append(@, th[t].loan)]
    /\ UNCHANGED <<clock, writer, readers, accepted>>

(* ---- Engine.MakePayment ---- *)
PaymentError(id, amount, now) ==
    IF ~Exists(id) THEN ErrNotFound
    ELSE IF AmountError(loans[id], amount, now) # Nil
         THEN AmountError(loans[id], amount, now)
         ELSE SettledError(loans[id])

RECURSIVE SumLen(_)
SumLen(S) ==
    IF S = {} THEN 0
    ELSE LET k == CHOOSE x \in S : TRUE
         IN (IF Exists(k) THEN Len(loans[k].payments) ELSE 0) + SumLen(S \ {k})

MakePayment_Lock(t) ==
    /\ th[t].pc = "idle"
    /\ SumLen(Keys) < MaxPayments
    /\ CanLock
    /\ writer' = writer \cup {t}
    /\ \E id \in IDs, amount \in Amounts :
          th' = [th EXCEPT ![t] = [Idle EXCEPT !.pc = "check", !.op = "MakePayment",
                                               !.id = id, !.amount = amount,
                                               !.pre = loans]]
    /\ UNCHANGED <<clock, loans, readers, accepted, created>>

(* mutant: the entry is recorded before the payment is validated *)
MakePayment_CheckAfterAppend(t) ==
    /\ th[t].pc = "check"
    /\ th' = [th EXCEPT ![t].ret = PaymentError(th[t].id, th[t].amount, clock),
                        ![t].pc = IF PaymentError(th[t].id, th[t].amount, clock) = Nil
                                  THEN "subtract" ELSE "unlock"]
    /\ loans' = [loans EXCEPT ![th[t].id] =
                    IF Exists(th[t].id) THEN AppendPayment(@, th[t].amount, clock) ELSE @]
    /\ UNCHANGED <<clock, writer, readers, accepted, created>>

MakePayment_Check(t) ==
    /\ th[t].pc = "check"
    /\ th' = [th EXCEPT ![t].ret = PaymentError(th[t].id, th[t].amount, clock),
                        ![t].pc = IF PaymentError(th[t].id, th[t].amount, clock) = Nil
                                  THEN "append" ELSE "unlock"]
    /\ UNCHANGED <<clock, loans, writer, readers, accepted, created>>

MakePayment_Append(t) ==
    /\ th[t].pc = "append"
    /\ loans' = [loans EXCEPT ![th[t].id] = AppendPayment(@, th[t].amount, clock)]
    /\ th' = [th EXCEPT ![t].pc = "subtract"]
    /\ UNCHANGED <<clock, writer, readers, accepted, created>>

MakePayment_Subtract(t) ==
    /\ th[t].pc = "subtract"
    /\ loans' = [loans EXCEPT ![th[t].id] = SubtractDebt(@, th[t].amount)]
    /\ th' = [th EXCEPT ![t].pc = "status"]
    /\ UNCHANGED <<clock, writer, readers, accepted, created>>

MakePayment_Status(t) ==
    /\ th[t].pc = "status"
    /\ loans' = [loans EXCEPT ![th[t].id] = UpdateStatus(@, clock)]
    /\ th' = [th EXCEPT ![t].pc = "unlock", ![t].ret = Nil]
    /\ accepted' = [accepted EXCEPT ![th[t].id] = Append(@, th[t].amount)]
    /\ UNCHANGED <<clock, writer, readers, created>>

(* mutant: the lock is released only when the call succeeded *)
UnlockOnSuccess(t) ==
    /\ th[t].pc = "unlock"
    /\ writer' = IF th[t].ret = Nil THEN writer \ {t} ELSE writer
    /\ th' = [th EXCEPT ![t] = Idle]
    /\ UNCHANGED <<clock, loans, readers, accepted, created>>

(* deferred e.mutex.Unlock() of CreateLoan and MakePayment; the call returns *)
Unlock(t) ==
    /\ th[t].pc = "unlock"
    /\ writer' = writer \ {t}
    /\ th' = [th EXCEPT ![t] = Idle]
    /\ UNCHANGED <<clock, loans, readers, accepted, created>>

(* ---- the read-only operations ---- *)
ReadValue(op, id, now) ==
    IF op = "GetLoan" THEN (IF Exists(id) THEN id ELSE NoLoan.id)
    ELSE IF op = "GetOutstanding" THEN (IF Exists(id) THEN loans[id].outstandingDebt ELSE 0)
    ELSE IF op = "IsDelinquent" THEN (IF Exists(id) THEN IsDelinquent(loans[id], now) ELSE FALSE)
    ELSE IF op = "GetBillingSchedule" THEN (IF Exists(id) THEN GetBillingSchedule(loans[id]) ELSE <<>>)
    ELSE (IF Exists(id) THEN loans[id].status ELSE Active)

(* mutant: a missing identifier is not reported *)
Read_RLockNoCheck(t) ==
    /\ th[t].pc = "idle"
    /\ CanRLock
    /\ readers' = readers \cup {t}
    /\ \E op \in ReadOps, id \in IDs :
          th' = [th EXCEPT ![t] = [Idle EXCEPT !.pc = "runlock", !.op = op, !.id = id,
                        !.pre = loans,
                        !.ret = Nil,
                        !.val = ReadValue(op, id, clock)]]
    /\ UNCHANGED <<clock, loans, writer, accepted, created>>

Read_RLock(t) ==
    /\ th[t].pc = "idle"
    /\ CanRLock
    /\ readers' = readers \cup {t}
    /\ \E op \in ReadOps, id \in IDs :
          th' = [th EXCEPT ![t] = [Idle EXCEPT !.pc = "runlock", !.op = op, !.id = id,
                        !.pre = loans,
                        !.ret = IF Exists(id) THEN Nil ELSE ErrNotFound,
                        !.val = ReadValue(op, id, clock)]]
    /\ UNCHANGED <<clock, loans, writer, accepted, created>>

Read_RUnlock(t) ==
    /\ th[t].pc = "runlock"
    /\ readers' = readers \ {t}
    /\ th' = [th EXCEPT ![t] = Idle]
    /\ UNCHANGED <<clock, loans, writer, accepted, created>>

Next ==
    \/ Tick
    \/ \E t \in Threads : CreateLoan_New(t)
    \/ \E t \in Threads : CreateLoan_Lock(t)
    \/ \E t \in Threads : CreateLoan_Insert(t)
    \/ \E t \in Threads : MakePayment_Lock(t)
    \/ \E t \in Threads : MakePayment_Check(t)
    \/ \E t \in Threads : MakePayment_Append(t)
    \/ \E t \in Threads : MakePayment_Subtract(t)
    \/ \E t \in Threads : MakePayment_Status(t)
    \/ \E t \in Threads : Unlock(t)
    \/ \E t \in Threads : Read_RLock(t)
    \/ \E t \in Threads : Read_RUnlock(t)

Spec == Init /\ [][Next]_vars

(* ---- methods called on the *Loan returned by CreateLoan or GetLoan ---- *)
(* the caller of CreateLoan has returned with the loan registered under k *)
HandleReturned(k) ==
    /\ Exists(k)
    /\ ~\E t \in Threads : th[t].op = "CreateLoan" /\ th[t].id = k /\ th[t].pc # "idle"

Loan_MakePayment_Call(t) ==
    /\ th[t].pc = "idle"
    /\ SumLen(Keys) < MaxPayments
    /\ \E id \in IDs, amount \in Amounts :
          /\ HandleReturned(id)
          /\ th' = [th EXCEPT ![t] = [Idle EXCEPT !.pc = "l_check", !.op = "Loan.MakePayment",
                                                  !.id = id, !.amount = amount,
                                                  !.pre = loans]]
    /\ UNCHANGED <<clock, loans, writer, readers, accepted, created>>

Loan_MakePayment_Check(t) ==
    /\ th[t].pc = "l_check"
    /\ th' = [th EXCEPT ![t].ret = PaymentError(th[t].id, th[t].amount, clock),
                        ![t].pc = IF PaymentError(th[t].id, th[t].amount, clock) = Nil
                                  THEN "l_append" ELSE "l_return"]
    /\ UNCHANGED <<clock, loans, writer, readers, accepted, created>>

Loan_MakePayment_Append(t) ==
    /\ th[t].pc = "l_append"
    /\ loans' = [loans EXCEPT ![th[t].id] = AppendPayment(@, th[t].amount, clock)]
    /\ th' = [th EXCEPT ![t].pc = "l_subtract"]
    /\ UNCHANGED <<clock, writer, readers, accepted, created>>

Loan_MakePayment_Subtract(t) ==
    /\ th[t].pc = "l_subtract"
    /\ loans' = [loans EXCEPT ![th[t].id] = SubtractDebt(@, th[t].amount)]
    /\ th' = [th EXCEPT ![t].pc = "l_status"]
    /\ UNCHANGED <<clock, writer, readers, accepted, created>>

Loan_MakePayment_Status(t) ==
    /\ th[t].pc = "l_status"
    /\ loans' = [loans EXCEPT ![th[t].id] = UpdateStatus(@, clock)]
    /\ th' = [th EXCEPT ![t].pc = "l_return", ![t].ret = Nil]
    /\ accepted' = [accepted EXCEPT ![th[t].id] = Append(@, th[t].amount)]
    /\ UNCHANGED <<clock, writer, readers, created>>

Loan_GetOutstanding(t) ==
    /\ th[t].pc = "idle"
    /\ \E id \in IDs :
          /\ HandleReturned(id)
          /\ th' = [th EXCEPT ![t] = [Idle EXCEPT !.pc = "l_return", !.op = "Loan.GetOutstanding",
                                                  !.id = id,
                                                  !.val = loans[id].outstandingDebt]]
    /\ UNCHANGED <<clock, loans, writer, readers, accepted, created>>

Loan_Return(t) ==
    /\ th[t].pc = "l_return"
    /\ th' = [th EXCEPT ![t] = Idle]
    /\ UNCHANGED <<clock, loans, writer, readers, accepted, created>>

(* callers that also use the loans CreateLoan returned to them, at one instant *)
NextHandle ==
    \/ \E t \in Threads : CreateLoan_New(t)
    \/ \E t \in Threads : CreateLoan_Lock(t)
    \/ \E t \in Threads : CreateLoan_Insert(t)
    \/ \E t \in Threads : MakePayment_Lock(t)
    \/ \E t \in Threads : MakePayment_Check(t)
    \/ \E t \in Threads : MakePayment_Append(t)
    \/ \E t \in Threads : MakePayment_Subtract(t)
    \/ \E t \in Threads : MakePayment_Status(t)
    \/ \E t \in Threads : Unlock(t)
    \/ \E t \in Threads : Loan_MakePayment_Call(t)
    \/ \E t \in Threads : Loan_MakePayment_Check(t)
    \/ \E t \in Threads : Loan_MakePayment_Append(t)
    \/ \E t \in Threads : Loan_MakePayment_Subtract(t)
    \/ \E t \in Threads : Loan_MakePayment_Status(t)
    \/ \E t \in Threads : Loan_GetOutstanding(t)
    \/ \E t \in Threads : Loan_Return(t)

SpecHandle == Init /\ [][NextHandle]_vars

(* ---- one caller, every way of creating a loan ---- *)
Client == "t1"

SeqConfigs == { [Principal |-> 1000000, InterestRate |-> 10, TotalWeeks |-> 50] }

SeqAmounts == {-22000, 0, 22000, 44000, 88000, 110000}

SeqIDs == {"loan1"}

SeqOptionLists ==
    { <<WithLoanID(i), WithLoanConfig(c)>> : i \in SeqIDs, c \in SeqConfigs }
    \cup { <<WithLoanConfig(c), WithLoanID(i)>> : i \in SeqIDs, c \in SeqConfigs }
    \cup { <<WithLoanID(i)>> : i \in SeqIDs }
    \cup { <<WithLoanConfig(c)>> : c \in SeqConfigs }
    \cup { <<>> }

(* the identifier uuid.New() generates is kept only when it is not in use *)
CreateLoan_NewAny(t) ==
    /\ th[t].pc = "idle"
    /\ \E options \in SeqOptionLists, uuid \in UUIDs :
          /\ (NewLoan(uuid, clock, options).id = uuid) => ~Exists(uuid)
          /\ th' = [th EXCEPT ![t] = [Idle EXCEPT !.pc = "lock", !.op = "CreateLoan",
                                                  !.options = options,
                                                  !.loan = NewLoan(uuid, clock, options),
                                                  !.id = NewLoan(uuid, clock, options).id]]
    /\ UNCHANGED <<clock, loans, writer, readers, accepted, created>>

MakePayment_LockAny(t) ==
    /\ th[t].pc = "idle"
    /\ SumLen(Keys) < MaxPayments
    /\ CanLock
    /\ writer' = writer \cup {t}
    /\ \E id \in SeqIDs \cup UUIDs, amount \in SeqAmounts :
          th' = [th EXCEPT ![t] = [Idle EXCEPT !.pc = "check", !.op = "MakePayment",
                                               !.id = id, !.amount = amount,
                                               !.pre = loans]]
    /\ UNCHANGED <<clock, loans, readers, accepted, created>>

(* loan.GetPayments() on the loan CreateLoan returned *)
Loan_GetPayments(t) ==
    /\ th[t].pc = "idle"
    /\ \E id \in SeqIDs \cup UUIDs :
          /\ HandleReturned(id)
          /\ th' = [th EXCEPT ![t] = [Idle EXCEPT !.pc = "l_slice", !.op = "Loan.GetPayments",
                                                  !.id = id,
                                                  !.val = GetPayments(loans[id])]]
    /\ UNCHANGED <<clock, loans, writer, readers, accepted, created>>

(* the caller overwrites the first element of the slice it was given, or      *)
(* appends to it when it is empty                                             *)
Caller_WriteSlice(t) ==
    /\ th[t].pc = "l_slice"
    /\ IF th[t].val.entries = <<>>
       THEN /\ th' = [th EXCEPT ![t].pc = "l_return",
                                ![t].val.entries = <<[Amount |-> 0, Date |-> clock]>>]
            /\ UNCHANGED loans
       ELSE /\ th' = [th EXCEPT ![t].pc = "l_return", ![t].val.entries[1].Amount = 0]
            /\ loans' = IF th[t].val.shared
                        THEN [loans EXCEPT ![th[t].id].payments[1].Amount = 0]
                        ELSE loans
    /\ UNCHANGED <<clock, writer, readers, accepted, created>>

NextSeq ==
    \/ Tick
    \/ CreateLoan_NewAny(Client)
    \/ CreateLoan_Lock(Client)
    \/ CreateLoan_Insert(Client)
    \/ MakePayment_LockAny(Client)
    \/ MakePayment_Check(Client)
    \/ MakePayment_Append(Client)
    \/ MakePayment_Subtract(Client)
    \/ MakePayment_Status(Client)
    \/ Unlock(Client)
    \/ Loan_GetPayments(Client)
    \/ Caller_WriteSlice(Client)
    \/ Loan_Return(Client)

SpecSeq == Init /\ [][NextSeq]_vars

(* ---- calls that wait for the lock ---- *)
(* Engine.MakePayment is called and blocks in e.mutex.Lock() *)
MakePayment_Call(t) ==
    /\ th[t].pc = "idle"
    /\ SumLen(Keys) < MaxPayments
    /\ \E id \in IDs, amount \in Amounts :
          th' = [th EXCEPT ![t] = [Idle EXCEPT !.pc = "lock", !.op = "MakePayment",
                                               !.id = id, !.amount = amount]]
    /\ UNCHANGED <<clock, loans, writer, readers, accepted, created>>

MakePayment_Acquire(t) ==
    /\ th[t].pc = "lock"
    /\ th[t].op = "MakePayment"
    /\ CanLock
    /\ writer' = writer \cup {t}
    /\ th' = [th EXCEPT ![t].pc = "check", ![t].pre = loans]
    /\ UNCHANGED <<clock, loans, readers, accepted, created>>

(* a read operation is called and blocks in e.mutex.RLock() *)
Read_Call(t) ==
    /\ th[t].pc = "idle"
    /\ \E op \in ReadOps, id \in IDs :
          th' = [th EXCEPT ![t] = [Idle EXCEPT !.pc = "rlock", !.op = op, !.id = id]]
    /\ UNCHANGED <<clock, loans, writer, readers, accepted, created>>

Read_Acquire(t) ==
    /\ th[t].pc = "rlock"
    /\ CanRLock
    /\ readers' = readers \cup {t}
    /\ th' = [th EXCEPT ![t].pc = "runlock", ![t].pre = loans,
                        ![t].ret = IF Exists(th[t].id) THEN Nil ELSE ErrNotFound,
                        ![t].val = ReadValue(th[t].op, th[t].id, clock)]
    /\ UNCHANGED <<clock, loans, writer, accepted, created>>

NextLive ==
    \/ \E t \in Threads : CreateLoan_New(t)
    \/ \E t \in Threads : CreateLoan_Lock(t)
    \/ \E t \in Threads : CreateLoan_Insert(t)
    \/ \E t \in Threads : MakePayment_Call(t)
    \/ \E t \in Threads : MakePayment_Acquire(t)
    \/ \E t \in Threads : MakePayment_Check(t)
    \/ \E t \in Threads : MakePayment_Append(t)
    \/ \E t \in Threads : MakePayment_Subtract(t)
    \/ \E t \in Threads : MakePayment_Status(t)
    \/ \E t \in Threads : Unlock(t)
    \/ \E t \in Threads : Read_Call(t)
    \/ \E t \in Threads : Read_Acquire(t)
    \/ \E t \in Threads : Read_RUnlock(t)

(* a thread that holds the lock, or needs none, takes its next step *)
Continue(t) ==
    \/ CreateLoan_Insert(t)
    \/ MakePayment_Check(t)
    \/ MakePayment_Append(t)
    \/ MakePayment_Subtract(t)
    \/ MakePayment_Status(t)
    \/ Unlock(t)
    \/ Read_RUnlock(t)

(* a thread blocked in Lock() or RLock() gets the lock *)
Acquire(t) ==
    \/ CreateLoan_Lock(t)
    \/ MakePayment_Acquire(t)
    \/ Read_Acquire(t)

(* running goroutines are scheduled, and sync.RWMutex does not starve a waiter *)
Fairness == \A t \in Threads : WF_vars(Continue(t)) /\ SF_vars(Acquire(t))

SpecLive == Init /\ [][NextLive]_vars /\ Fairness

(* ---- the older variant of the loan, used directly as its test does ---- *)
VariantAmounts == {0, 22000}

(* loan := NewLoan() *)
Variant_NewLoan(t) ==
    /\ th[t].pc = "idle"
    /\ \E uuid \in UUIDs :
          /\ ~Exists(uuid)
          /\ loans' = [loans EXCEPT ![uuid] = NewLoan(uuid, clock, <<>>)]
          /\ created' = [created EXCEPT ![uuid] = Append(@, NewLoan(uuid, clock, <<>>))]
    /\ UNCHANGED <<clock, writer, readers, th, accepted>>

(* the caller writes the exported field: one more entry of any amount, dated *)
(* now or earlier                                                            *)
Variant_SetPayments(t) ==
    /\ th[t].pc = "idle"
    /\ \E uuid \in UUIDs, amount \in VariantAmounts, i \in 0..MaxTicks :
          /\ Exists(uuid)
          /\ Len(loans[uuid].payments) <= MaxPayments
          /\ TimeAt(i) <= clock
          /\ loans' = [loans EXCEPT ![uuid].payments =
                          Append(@, [Amount |-> amount, Date |-> TimeAt(i)])]
    /\ UNCHANGED <<clock, writer, readers, th, accepted, created>>

(* loan.IsDelinquent() *)
Variant_IsDelinquent(t) ==
    /\ th[t].pc = "idle"
    /\ \E uuid \in UUIDs :
          /\ Exists(uuid)
          /\ th' = [th EXCEPT ![t] = [Idle EXCEPT !.pc = "l_return", !.op = "Variant.IsDelinquent",
                                                  !.id = uuid,
                                                  !.val = IsDelinquentByZeroEntries(loans[uuid], clock)]]
    /\ UNCHANGED <<clock, loans, writer, readers, accepted, created>>

NextVariant ==
    \/ Tick
    \/ Variant_NewLoan(Client)
    \/ Variant_SetPayments(Client)
    \/ Variant_IsDelinquent(Client)
    \/ Loan_Return(Client)

SpecVariant == Init /\ [][NextVariant]_vars

(* ---- a total that the number of installments does not divide ---- *)
(* 22 over 3 installments: the installment is the rounded quotient 7, as      *)
(* 5,500,000 / 3 is rounded to 1833333.3333333333 in float64                  *)
RoundedConfigs == { [Principal |-> 20, InterestRate |-> 10, TotalWeeks |-> 3] }

RoundedAmounts == {7, 14}

CreateLoan_NewRounded(t) ==
    /\ th[t].pc = "idle"
    /\ \E id \in SeqIDs, c \in RoundedConfigs, uuid \in UUIDs :
          th' = [th EXCEPT ![t] =
                    [Idle EXCEPT !.pc = "lock", !.op = "CreateLoan",
                                 !.options = <<WithLoanID(id), WithLoanConfig(c)>>,
                                 !.loan = NewLoan(uuid, clock, <<WithLoanID(id), WithLoanConfig(c)>>),
                                 !.id = id]]
    /\ UNCHANGED <<clock, loans, writer, readers, accepted, created>>

(* payments go on until the ledger is two entries past the payment bound *)
MakePayment_LockAhead(t) ==
    /\ th[t].pc = "idle"
    /\ SumLen(Keys) < MaxPayments + 2
    /\ CanLock
    /\ writer' = writer \cup {t}
    /\ \E id \in SeqIDs, amount \in RoundedAmounts :
          th' = [th EXCEPT ![t] = [Idle EXCEPT !.pc = "check", !.op = "MakePayment",
                                               !.id = id, !.amount = amount,
                                               !.pre = loans]]
    /\ UNCHANGED <<clock, loans, readers, accepted, created>>

NextAhead ==
    \/ Tick
    \/ CreateLoan_NewRounded(Client)
    \/ CreateLoan_Lock(Client)
    \/ CreateLoan_Insert(Client)
    \/ MakePayment_LockAhead(Client)
    \/ MakePayment_Check(Client)
    \/ MakePayment_Append(Client)
    \/ MakePayment_Subtract(Client)
    \/ MakePayment_Status(Client)
    \/ Unlock(Client)

SpecAhead == Init /\ [][NextAhead]_vars

(* ---------------------------------------------------------------------- *)
(* Properties                                                              *)
(* ---------------------------------------------------------------------- *)
RECURSIVE SumAmounts(_)
SumAmounts(payments) ==
    IF payments = <<>> THEN 0
    ELSE payments[Len(payments)].Amount + SumAmounts(SubSeq(payments, 1, Len(payments) - 1))

RECURSIVE SumSeq(_)
SumSeq(amounts) ==
    IF amounts = <<>> THEN 0 ELSE Head(amounts) + SumSeq(Tail(amounts))

AmountsOf(payments) == [i \in 1..Len(payments) |-> payments[i].Amount]

(* some thread is inside Loan.MakePayment on loan k, at one of the positions pcs *)
Applying(k, pcs) ==
    \E t \in Threads : th[t].op = "MakePayment" /\ th[t].id = k /\ th[t].pc \in pcs

(* thread t is about to return from Engine.MakePayment *)
PaymentReturns(t) == th[t].op = "MakePayment" /\ th[t].pc = "unlock"

(* the step in which thread t runs the checks of MakePayment *)
CheckStep(t) == th[t].op = "MakePayment" /\ th[t].pc = "check" /\ th'[t].pc # "check"

(* the missed count as section 4.1 defines it, for loan l at time now *)
MissedAt(l, now) ==
    ((now - l.startDate) \div (DaysPerWeek * HoursPerDay)) + 1 - Len(l.payments)

ValidConfig(l) == l.principal > 0 /\ l.interestRate >= 0 /\ l.totalWeeks >= 1

(* C1: between the subtraction steps of payments, every registered loan has   *)
(* outstandingBalance = principal*(1+rate) - the sum of its ledger's amounts. *)
C1_BalanceIsDueMinusPaid ==
    \A k \in Keys :
        (Exists(k) /\ ~Applying(k, {"subtract"})) =>
            loans[k].outstandingDebt =
                (loans[k].principal + (loans[k].principal * loans[k].interestRate) \div 100)
                    - SumAmounts(loans[k].payments)

C1_Witness ==
    \E k \in Keys :
        /\ Exists(k)
        /\ writer = {}
        /\ Len(loans[k].payments) = 2
        /\ loans[k].outstandingDebt < 0

(* C2: a payment attempt on a loan whose balance is already <= 0 returns the  *)
(* "loan is already fully paid" error, whatever the amount and whatever the   *)
(* number of missed installments.                                             *)
C2_SettledLoanAlwaysAlreadyPaid ==
    \A t \in Threads :
        (/\ PaymentReturns(t)
         /\ th[t].pre[th[t].id] # NoLoan
         /\ th[t].pre[th[t].id].outstandingDebt <= 0)
        => th[t].ret = ErrAlreadyPaid

(* C3: a MakePayment call that returns an error leaves the registry and every *)
(* field of every loan as they were when the call took the lock.              *)
C3_RejectedPaymentChangesNothing ==
    \A t \in Threads :
        (PaymentReturns(t) /\ th[t].ret # Nil) => loans = th[t].pre

C3_Witness ==
    \E t \in Threads :
        /\ PaymentReturns(t)
        /\ th[t].ret.msg = "payment amount must be at least %.2f for %d missed payments"
        /\ Len(loans[th[t].id].payments) > 0

(* C4: with missed > 0 on a loan that is not settled, a payment is accepted   *)
(* exactly when amount >= missed * installmentAmount, and a smaller amount    *)
(* fails with InsufficientPayment carrying that minimum and that missed count.*)
C4_MissedMinimum ==
    [][\A t \in Threads :
          (/\ CheckStep(t)
           /\ Exists(th[t].id)
           /\ loans[th[t].id].outstandingDebt > 0
           /\ MissedAt(loans[th[t].id], clock) > 0)
          => LET l == loans[th[t].id]
                 minimum == MissedAt(l, clock) * l.weeklyPayment
             IN /\ (th'[t].ret = Nil) <=> (th[t].amount >= minimum)
                /\ (th[t].amount < minimum) =>
                       th'[t].ret = ErrInsufficient(minimum, MissedAt(l, clock))
      ]_vars

C4_Witness ==
    \E t \in Threads :
        /\ PaymentReturns(t)
        /\ Exists(th[t].id)
        /\ th[t].ret = ErrInsufficient(2 * loans[th[t].id].weeklyPayment, 2)
        /\ th[t].amount >= loans[th[t].id].weeklyPayment
        /\ loans[th[t].id].outstandingDebt > 0

(* C5: with no missed installment on a loan that is not settled, a payment is *)
(* accepted exactly when amount = installmentAmount; any other amount fails   *)
(* with IncorrectPaymentAmount.                                               *)
C5_ExactInstallment ==
    [][\A t \in Threads :
          (/\ CheckStep(t)
           /\ Exists(th[t].id)
           /\ loans[th[t].id].outstandingDebt > 0
           /\ MissedAt(loans[th[t].id], clock) <= 0)
          => LET l == loans[th[t].id]
             IN /\ (th'[t].ret = Nil) <=> (th[t].amount = l.weeklyPayment)
                /\ (th[t].amount # l.weeklyPayment) => th'[t].ret = ErrIncorrectAmount
      ]_vars

C5_Witness ==
    \E t \in Threads :
        /\ PaymentReturns(t)
        /\ th[t].ret = ErrIncorrectAmount
        /\ th[t].amount > loans[th[t].id].weeklyPayment
        /\ loans[th[t].id].outstandingDebt > 0

(* C6: an accepted payment appends exactly one entry {amount, current time}   *)
(* at the end of the loan's ledger and lowers its balance by exactly amount;  *)
(* apart from status nothing else of that loan, and no other loan, changes.   *)
C6_AcceptedPaymentEffect ==
    [][\A t \in Threads :
          /\ (th[t].op = "MakePayment" /\ th[t].pc = "append" /\ th'[t].pc # "append")
             => loans'[th[t].id].payments =
                    Append(loans[th[t].id].payments,
                           [Amount |-> th[t].amount, Date |-> clock])
          /\ (th[t].op = "MakePayment" /\ th[t].pc = "status" /\ th'[t].pc = "unlock"
                 /\ th'[t].ret = Nil)
             => LET a == th[t].pre[th[t].id]
                    b == loans'[th[t].id]
                IN /\ Len(b.payments) = Len(a.payments) + 1
                   /\ SubSeq(b.payments, 1, Len(a.payments)) = a.payments
                   /\ b.payments[Len(b.payments)].Amount = th[t].amount
                   /\ b.outstandingDebt = a.outstandingDebt - th[t].amount
                   /\ [b EXCEPT !.payments = a.payments,
                                !.outstandingDebt = a.outstandingDebt,
                                !.status = a.status] = a
                   /\ \A j \in Keys \ {th[t].id} : loans'[j] = th[t].pre[j]
      ]_vars

C6_Witness ==
    \E t \in Threads :
        /\ PaymentReturns(t)
        /\ th[t].ret = Nil
        /\ loans[th[t].id].outstandingDebt < 0
        /\ \E j \in Keys \ {th[t].id} : Exists(j)

(* C7: between the status updates of payments, a loan with valid              *)
(* configuration is Closed if and only if its balance is <= 0.                *)
C7_ClosedIffSettled ==
    \A k \in Keys :
        (Exists(k) /\ ValidConfig(loans[k]) /\ ~Applying(k, {"status"})) =>
            ((loans[k].status = Closed) <=> (loans[k].outstandingDebt <= 0))

C7_Witness ==
    \E k \in Keys :
        /\ Exists(k)
        /\ writer = {}
        /\ loans[k].status = Closed
        /\ loans[k].outstandingDebt = 0

(* C8: once a loan is Closed no step changes its status, ledger or balance,   *)
(* and every MakePayment check on it ends in an error.                        *)
C8_ClosedIsAbsorbing ==
    [][/\ \A k \in Keys :
             (Exists(k) /\ loans[k].status = Closed) => loans'[k] = loans[k]
       /\ \A t \in Threads :
             (CheckStep(t) /\ Exists(th[t].id) /\ loans[th[t].id].status = Closed)
             => th'[t].ret # Nil
      ]_vars

C8_Witness ==
    \E t \in Threads :
        /\ PaymentReturns(t)
        /\ th[t].ret # Nil
        /\ Exists(th[t].id)
        /\ loans[th[t].id].status = Closed
        /\ clock > loans[th[t].id].payments[Len(loans[th[t].id].payments)].Date

(* the loans as thread t alone has made them from what it found when it took  *)
(* the lock                                                                   *)
OwnProgress(t) ==
    LET l0 == th[t].pre[th[t].id]
        l1 == [l0 EXCEPT !.payments = Append(l0.payments, loans[th[t].id].payments[Len(loans[th[t].id].payments)])]
        l2 == [l1 EXCEPT !.outstandingDebt = l0.outstandingDebt - th[t].amount]
    IN  IF th[t].pc \in {"check", "append"} \/ (th[t].pc = "unlock" /\ th[t].ret # Nil)
        THEN loans = th[t].pre
        ELSE /\ \A j \in Keys \ {th[t].id} : loans[j] = th[t].pre[j]
             /\ Len(loans[th[t].id].payments) = Len(l0.payments) + 1
             /\ loans[th[t].id].payments[Len(loans[th[t].id].payments)].Amount = th[t].amount
             /\ IF th[t].pc = "subtract" THEN loans[th[t].id] = l1
                ELSE IF th[t].pc = "status" THEN loans[th[t].id] = l2
                ELSE [loans[th[t].id] EXCEPT !.status = l0.status] = l2

(* C9: payments are serialized.  A thread inside Engine.MakePayment works on  *)
(* loans that only it has changed since it took the lock, and whenever no     *)
(* payment is in progress each ledger holds exactly one entry per accepted    *)
(* call and each balance is the initial balance minus the accepted amounts.   *)
C9_PaymentsSerialized ==
    /\ \A t \in Threads : th[t].op = "MakePayment" => OwnProgress(t)
    /\ \A k \in Keys :
          (Exists(k) /\ ~Applying(k, {"check", "append", "subtract", "status"})) =>
              /\ AmountsOf(loans[k].payments) = accepted[k]
              /\ loans[k].outstandingDebt =
                     (loans[k].principal + (loans[k].principal * loans[k].interestRate) \div 100)
                         - SumSeq(accepted[k])

C9_Witness ==
    \E k \in Keys :
        /\ Len(accepted[k]) = 2
        /\ \E t \in Threads : th[t].op = "MakePayment" /\ th[t].id = k /\ th[t].pc = "unlock"
        /\ \E t \in Threads : th[t].op = "CreateLoan" /\ th[t].pc = "lock"

(* C10: a writer (CreateLoan's check-and-insert, MakePayment) is never inside *)
(* its critical section together with another operation, and no reader is     *)
(* inside while a payment is half applied; readers may be inside together.    *)
C10_WritersExclusive ==
    /\ Cardinality(writer) <= 1
    /\ writer # {} => readers = {}
    /\ \A t \in Threads :
          (th[t].pc \in {"insert", "check", "append", "subtract", "status", "unlock"})
              => (writer = {t} /\ readers = {})
    /\ \A t \in Threads : th[t].pc = "runlock" => (t \in readers /\ writer = {})

C10_Witness ==
    /\ Cardinality(readers) = 2
    /\ \E k \in Keys : Exists(k) /\ Len(loans[k].payments) > 0

(* C11: the ledger, balance and status of a registered loan change only in    *)
(* steps of a thread that is inside Engine.MakePayment holding the lock       *)
(* exclusively, and no method of a returned loan reads them while such a      *)
(* payment is half applied.                                                   *)
C11_LoanStateOnlyUnderLock ==
    [][/\ \A k \in Keys :
             (Exists(k) /\ loans'[k] # loans[k]) =>
                 \E t \in writer : th[t].op = "MakePayment" /\ th[t].id = k
       /\ \A t \in Threads :
             (th[t].pc = "idle" /\ th'[t].op = "Loan.GetOutstanding") =>
                 ~Applying(th'[t].id, {"subtract", "status"})
      ]_vars

(* a CreateLoan call of thread t is about to return *)
CreateReturns(t) == th[t].op = "CreateLoan" /\ th[t].pc = "unlock"

(* C12: a CreateLoan call that finds its identifier registered returns the    *)
(* Duplicate error and no loan, and the registry with every loan in it is     *)
(* what it was when the call took the lock.                                   *)
C12_DuplicateCreateChangesNothing ==
    \A t \in Threads :
        (CreateReturns(t) /\ th[t].pre[th[t].id] # NoLoan) =>
            /\ th[t].ret = ErrDuplicate
            /\ th[t].val = NoLoan.id
            /\ loans = th[t].pre

C12_Witness ==
    \E t \in Threads :
        /\ CreateReturns(t)
        /\ th[t].ret = ErrDuplicate
        /\ Len(loans[th[t].id].payments) > 0
        /\ loans[th[t].id].startDate # th[t].loan.startDate

(* C13: of all CreateLoan calls on one identifier, overlapping or not, exactly *)
(* one has succeeded once the identifier is registered and none before; every *)
(* other call returns Duplicate; the registered loan is the one the           *)
(* successful call built and returned.                                        *)
C13_ExactlyOneCreateSucceeds ==
    \A k \in Keys :
        /\ Len(created[k]) = (IF Exists(k) THEN 1 ELSE 0)
        /\ Exists(k) =>
              /\ loans[k].id = k
              /\ loans[k].startDate = created[k][1].startDate
        /\ \A t \in Threads :
              (CreateReturns(t) /\ th[t].id = k) =>
                  IF th[t].ret = Nil
                  THEN loans[k] = th[t].loan /\ th[t].val = k
                  ELSE th[t].ret = ErrDuplicate /\ th[t].pre[k] # NoLoan

(* the losing call built its loan before the winning call built its own, so   *)
(* the two calls overlapped                                                   *)
C13_Witness ==
    \E t \in Threads :
        /\ CreateReturns(t)
        /\ th[t].ret = ErrDuplicate
        /\ th[t].loan.startDate < loans[th[t].id].startDate

(* what each read returns beside the error: nil, 0, false, nil, LoanStatus(0) *)
ZeroValue(op) ==
    CASE op = "GetLoan" -> NoLoan.id
      [] op = "GetOutstanding" -> 0
      [] op = "IsDelinquent" -> FALSE
      [] op = "GetBillingSchedule" -> <<>>
      [] OTHER -> Active

(* C14: an operation called with an identifier that is not registered returns *)
(* NotFound and the zero value, never reaches the code that uses the loan,    *)
(* and leaves the registry as it found it, without the identifier.            *)
C14_UnknownIdIsNotFound ==
    \A t \in Threads :
        /\ (th[t].op \in ReadOps /\ th[t].pc = "runlock" /\ th[t].pre[th[t].id] = NoLoan) =>
              /\ th[t].ret = ErrNotFound
              /\ th[t].val = ZeroValue(th[t].op)
              /\ loans = th[t].pre
        /\ (th[t].op = "MakePayment" /\ th[t].pc # "check" /\ th[t].pre[th[t].id] = NoLoan) =>
              /\ th[t].pc = "unlock"
              /\ th[t].ret = ErrNotFound
              /\ loans = th[t].pre

C14_Witness ==
    \E t \in Threads :
        /\ th[t].op \in ReadOps
        /\ th[t].pc = "runlock"
        /\ th[t].ret = ErrNotFound
        /\ \E k \in Keys : Exists(k) /\ Len(loans[k].payments) > 0

(* C20: the identifier, principal, interest rate, number of installments,     *)
(* installment amount and origination time of a registered loan are those it  *)
(* was created with, in every state, whatever was paid or refused since.      *)
C20_ConfigurationIsFixed ==
    \A k \in Keys :
        Exists(k) =>
            /\ loans[k].id = created[k][1].id
            /\ loans[k].principal = created[k][1].principal
            /\ loans[k].interestRate = created[k][1].interestRate
            /\ loans[k].totalWeeks = created[k][1].totalWeeks
            /\ loans[k].weeklyPayment = created[k][1].weeklyPayment
            /\ loans[k].startDate = created[k][1].startDate

(* after a catch-up payment of two installments and a refused payment *)
C20_Witness ==
    \E k \in Keys, t \in Threads :
        /\ Exists(k)
        /\ accepted[k] = <<22>>
        /\ loans[k].outstandingDebt = 0
        /\ PaymentReturns(t) /\ th[t].id = k /\ th[t].ret # Nil

(* the step in which thread t calls the read operation op on a registered loan *)
ReadStep(t, op) ==
    th[t].pc = "idle" /\ th'[t].pc = "runlock" /\ th'[t].op = op /\ Exists(th'[t].id)

(* hours between the last ledger entry of l, or its origination, and now *)
SinceLastActivity(l, now) ==
    IF l.payments = <<>> THEN now - l.startDate
    ELSE now - l.payments[Len(l.payments)].Date

(* C15: every IsDelinquent call on a registered loan answers true exactly     *)
(* when more than 14 days have passed, at the time of the call, since the     *)
(* loan's last payment entry or, with an empty ledger, since origination.     *)
C15_DelinquentIffOverFourteenDays ==
    [][\A t \in Threads :
          ReadStep(t, "IsDelinquent") =>
              (th'[t].val = (SinceLastActivity(loans[th'[t].id], clock) > 14 * 24))
      ]_vars

(* a loan that was paid, then left alone, is reported delinquent *)
C15_Witness ==
    \E t \in Threads :
        /\ th[t].op = "IsDelinquent" /\ th[t].pc = "runlock"
        /\ th[t].val = TRUE
        /\ Exists(th[t].id)
        /\ Len(loans[th[t].id].payments) > 0

(* C16: every GetLoanStatus call on a registered loan with a positive balance *)
(* returns Delinquent when the delinquency check holds at the time of the     *)
(* call and Active when it does not.                                          *)
C16_StatusFollowsDelinquency ==
    [][\A t \in Threads :
          (ReadStep(t, "GetLoanStatus") /\ loans[th'[t].id].outstandingDebt > 0) =>
              th'[t].val = (IF SinceLastActivity(loans[th'[t].id], clock) > 14 * 24
                            THEN Delinquent ELSE Active)
      ]_vars

(* C17: the step that ends an accepted payment leaves the status Closed when  *)
(* the new balance is <= 0, otherwise Delinquent when more than 14 days have  *)
(* passed at that moment since the last ledger entry, otherwise Active.       *)
C17_StatusAfterAcceptedPayment ==
    [][\A t \in Threads :
          (th[t].op = "MakePayment" /\ th[t].pc = "status" /\ th'[t].pc = "unlock") =>
              loans'[th[t].id].status =
                  (IF loans'[th[t].id].outstandingDebt <= 0 THEN Closed
                   ELSE IF SinceLastActivity(loans'[th[t].id], clock) > 14 * 24
                        THEN Delinquent
                        ELSE Active)
      ]_vars

(* 88,000 paid on a loan of installment 22,000, three weeks old, nothing paid *)
C17_Witness ==
    \E t \in Threads :
        /\ PaymentReturns(t)
        /\ th[t].ret = Nil
        /\ th[t].amount = 88000
        /\ th[t].pre[th[t].id].payments = <<>>
        /\ loans[th[t].id].weeklyPayment = 22000
        /\ loans[th[t].id].payments[1].Date - loans[th[t].id].startDate >= 3 * 7 * 24
        /\ loans[th[t].id].status = Active

(* C18: a GetBillingSchedule call on a registered loan returns as many        *)
(* entries as the loan was created with installments, each the installment    *)
(* amount it was created with, and leaves the registry as it found it.        *)
C18_ScheduleIsFixed ==
    \A t \in Threads :
        (th[t].op = "GetBillingSchedule" /\ th[t].pc = "runlock" /\ th[t].ret = Nil) =>
            /\ Len(th[t].val) = created[th[t].id][1].totalWeeks
            /\ \A i \in 1..Len(th[t].val) : th[t].val[i] = created[th[t].id][1].weeklyPayment
            /\ loans = th[t].pre

(* the schedule of a loan with an accepted payment, read after a refused one *)
C18_Witness ==
    \E t \in Threads :
        /\ th[t].op = "GetBillingSchedule" /\ th[t].pc = "runlock" /\ th[t].ret = Nil
        /\ Len(loans[th[t].id].payments) > 0
        /\ Len(th[t].val) = 2

(* the configuration a list of options asks for: the last WithLoanConfig *)
RECURSIVE ConfigAsked(_)
ConfigAsked(options) ==
    IF options = <<>> THEN [Principal |-> 5000000, InterestRate |-> 10, TotalWeeks |-> 50]
    ELSE IF options[Len(options)].kind = "WithLoanConfig"
         THEN options[Len(options)].config
         ELSE ConfigAsked(SubSeq(options, 1, Len(options) - 1))

(* the identifiers a list of options asks for *)
IdsAsked(options) ==
    { options[i].id : i \in { j \in 1..Len(options) : options[j].kind = "WithLoanID" } }

(* C19: the loan a successful CreateLoan returns has the configuration asked  *)
(* for (the default without one), the identifier asked for (a generated one   *)
(* without one), balance = principal*(1+rate), installment * installments =   *)
(* principal*(1+rate), an empty ledger and status Active; 1,000,000/0.10/50   *)
(* gives 22,000 and 1,100,000, and a first payment of 22,000 made on it       *)
(* leaves 1,078,000 and Active.                                               *)
C19_FreshLoan ==
    /\ \A t \in Threads :
          (CreateReturns(t) /\ th[t].ret = Nil) =>
              LET l == loans[th[t].id]
                  c == ConfigAsked(th[t].options)
              IN  /\ l.principal = c.Principal
                  /\ l.interestRate = c.InterestRate
                  /\ l.totalWeeks = c.TotalWeeks
                  /\ IF IdsAsked(th[t].options) = {}
                     THEN l.id \in UUIDs
                     ELSE l.id \in IdsAsked(th[t].options)
                  /\ l.outstandingDebt * 100 = l.principal * (100 + l.interestRate)
                  /\ l.weeklyPayment * l.totalWeeks * 100 = l.principal * (100 + l.interestRate)
                  /\ l.payments = <<>>
                  /\ l.status = Active
                  /\ (l.principal = 1000000 /\ l.interestRate = 10 /\ l.totalWeeks = 50) =>
                        (l.weeklyPayment = 22000 /\ l.outstandingDebt = 1100000)
    /\ \A t \in Threads :
          (/\ PaymentReturns(t) /\ th[t].ret = Nil /\ th[t].amount = 22000
           /\ th[t].pre[th[t].id].payments = <<>>
           /\ th[t].pre[th[t].id].principal = 1000000
           /\ loans[th[t].id].payments[1].Date = clock) =>
              /\ loans[th[t].id].outstandingDebt = 1078000
              /\ loans[th[t].id].status = Active

(* the configuration given first and the identifier second *)
C19_Witness ==
    \E t \in Threads :
        /\ CreateReturns(t) /\ th[t].ret = Nil
        /\ Len(th[t].options) = 2
        /\ th[t].options[1].kind = "WithLoanConfig"
        /\ loans[th[t].id].weeklyPayment = 22000
        /\ \E k \in UUIDs : Exists(k) /\ loans[k].outstandingDebt = 5500000 - 110000

(* C21: in every step the balance of a registered loan with a valid           *)
(* configuration does not grow; the step that books an accepted payment makes *)
(* it strictly smaller, and every entry added to the ledger has a positive    *)
(* amount.                                                                    *)
C21_BalanceNeverIncreases ==
    [][\A k \in Keys :
          (Exists(k) /\ ValidConfig(loans[k])) =>
              /\ loans'[k].outstandingDebt <= loans[k].outstandingDebt
              /\ Len(loans'[k].payments) > Len(loans[k].payments) =>
                    loans'[k].payments[Len(loans'[k].payments)].Amount > 0
              /\ (\E t \in Threads : th[t].id = k /\ th[t].pc = "subtract"
                                     /\ th'[t].pc = "status") =>
                    loans'[k].outstandingDebt < loans[k].outstandingDebt
      ]_vars

(* a zero or negative amount refused on a loan that is paid ahead *)
C21_Witness ==
    \E t \in Threads :
        /\ PaymentReturns(t)
        /\ th[t].amount <= 0
        /\ th[t].ret = ErrIncorrectAmount
        /\ Exists(th[t].id)
        /\ Len(loans[th[t].id].payments) > 0
        /\ loans[th[t].id].outstandingDebt < TotalAmount(loans[th[t].id].principal,
                                                         loans[th[t].id].interestRate)

(* the missed count of l just before its last ledger entry was made *)
MissedBeforeLast(l) ==
    MissedAt([l EXCEPT !.payments = SubSeq(l.payments, 1, Len(l.payments) - 1)],
             l.payments[Len(l.payments)].Date)

(* the last entry of l was made at this instant and paid exactly the k >= 2   *)
(* installments then missed                                                   *)
CatchUpJustMade(l, now) ==
    /\ Len(l.payments) > 0
    /\ l.payments[Len(l.payments)].Date = now
    /\ MissedBeforeLast(l) >= 2
    /\ l.payments[Len(l.payments)].Amount = MissedBeforeLast(l) * l.weeklyPayment

(* C26: the append step of an accepted payment adds one ledger entry whatever *)
(* the amount; right after a catch-up of k >= 2 installments the missed count *)
(* is k-1, and a payment of one installment is refused as insufficient for    *)
(* k-1 installments when k >= 3 and passes the amount check when k = 2.       *)
C26_CatchUpCountsOnce ==
    [][\A t \in Threads :
          /\ (th[t].op = "MakePayment" /\ th[t].pc = "append" /\ th'[t].pc = "subtract") =>
                Len(loans'[th[t].id].payments) = Len(loans[th[t].id].payments) + 1
          /\ (/\ CheckStep(t)
              /\ Exists(th[t].id)
              /\ CatchUpJustMade(loans[th[t].id], clock)
              /\ th[t].amount = loans[th[t].id].weeklyPayment) =>
                LET l == loans[th[t].id]
                    k == MissedBeforeLast(loans[th[t].id])
                IN  /\ MissedAt(l, clock) = k - 1
                    /\ IF k >= 3
                       THEN th'[t].ret = ErrInsufficient((k - 1) * l.weeklyPayment, k - 1)
                       ELSE th'[t].ret \in {Nil, ErrAlreadyPaid}
      ]_vars

(* 88,000 paid with four installments missed, then 22,000 refused: 66,000 due *)
C26_Witness ==
    \E t \in Threads :
        /\ PaymentReturns(t)
        /\ th[t].amount = 22000
        /\ th[t].ret = ErrInsufficient(66000, 3)
        /\ Len(loans[th[t].id].payments) = 1
        /\ loans[th[t].id].payments[1] = [Amount |-> 88000, Date |-> clock]

(* p is an initial part of q *)
IsPrefix(p, q) == Len(p) <= Len(q) /\ SubSeq(q, 1, Len(p)) = p

(* C22: in every step the ledger of a registered loan keeps all its entries,  *)
(* in place, and may only gain entries at the end; the dates of the entries   *)
(* never decrease along the ledger; and a write to the slice GetPayments      *)
(* returned is no change of any loan.                                         *)
C22_LedgerAppendOnly ==
    [][/\ \A k \in Keys :
             Exists(k) =>
                 /\ IsPrefix(loans[k].payments, loans'[k].payments)
                 /\ \A i \in 1..(Len(loans'[k].payments) - 1) :
                       loans'[k].payments[i].Date <= loans'[k].payments[i + 1].Date
       /\ \A t \in Threads :
             (th[t].pc = "l_slice" /\ th'[t].pc = "l_return") => loans' = loans
      ]_vars

(* the caller has zeroed its copy of a ledger with two entries of different   *)
(* dates, and the ledger still has the amount that was paid                   *)
C22_Witness ==
    \E t \in Threads :
        /\ th[t].op = "Loan.GetPayments" /\ th[t].pc = "l_return"
        /\ Len(th[t].val.entries) = 2
        /\ th[t].val.entries[1].Amount = 0
        /\ loans[th[t].id].payments[1].Amount > 0
        /\ loans[th[t].id].payments[1].Date < loans[th[t].id].payments[2].Date

(* C23: once a CreateLoan on an identifier has succeeded, the identifier is   *)
(* registered in every later state, with the loan that call built (same       *)
(* identifier and origination time), and every GetLoan on it succeeds and     *)
(* returns that loan.                                                         *)
C23_LoansAreNeverRemoved ==
    \A k \in Keys :
        created[k] # <<>> =>
            /\ Exists(k)
            /\ loans[k].id = Head(created[k]).id
            /\ loans[k].startDate = Head(created[k]).startDate
            /\ IsPrefix(Head(created[k]).payments, loans[k].payments)
            /\ \A t \in Threads :
                  (th[t].op = "GetLoan" /\ th[t].pc = "runlock" /\ th[t].id = k) =>
                      (th[t].ret = Nil /\ th[t].val = k)

(* GetLoan on a loan that has been paid on, while a later CreateLoan with the *)
(* same identifier is waiting for the lock                                    *)
C23_Witness ==
    \E t, u \in Threads :
        /\ th[t].op = "GetLoan" /\ th[t].pc = "runlock" /\ th[t].ret = Nil
        /\ Len(loans[th[t].id].payments) > 0
        /\ th[u].op = "CreateLoan" /\ th[u].pc = "lock" /\ th[u].id = th[t].id
        /\ th[u].loan.startDate > loans[th[t].id].startDate

(* C24: a thread that is in no call holds neither the write lock nor a read   *)
(* lock, whatever its last call returned, and under fair scheduling of the    *)
(* lock every call that has started returns.                                  *)
C24_EveryCallReturns ==
    /\ [](\A t \in Threads : th[t].pc = "idle" => t \notin (writer \cup readers))
    /\ \A t \in Threads : (th[t].pc # "idle") ~> (th[t].pc = "idle")

(* a CreateLoan waits for the lock held by a payment that is being refused *)
C24_Witness ==
    \E t, u \in Threads :
        /\ th[t].op = "CreateLoan" /\ th[t].pc = "lock"
        /\ PaymentReturns(u) /\ th[u].ret # Nil
        /\ u \in writer

(* C27: in the older variant an IsDelinquent call answers false for a loan    *)
(* with fewer than two ledger entries and for a loan whose two most recent    *)
(* entries are not both of amount 0, whatever the time.                       *)
C27_DelinquentOnlyAfterTwoZeroEntries ==
    \A t \in Threads :
        (th[t].op = "Variant.IsDelinquent" /\ th[t].pc = "l_return") =>
            LET payments == loans[th[t].id].payments
            IN  (\/ Len(payments) < 2
                 \/ payments[Len(payments) - 1].Amount # 0
                 \/ payments[Len(payments)].Amount # 0) => (th[t].val = FALSE)

(* two entries of 22,000 made 588 h ago: not delinquent in this variant,      *)
(* delinquent by elapsed time                                                 *)
C27_Witness ==
    \E t \in Threads :
        /\ th[t].op = "Variant.IsDelinquent" /\ th[t].pc = "l_return"
        /\ th[t].val = FALSE
        /\ Len(loans[th[t].id].payments) = 2
        /\ \A i \in 1..2 : loans[th[t].id].payments[i].Amount = 22000
        /\ IsDelinquent(loans[th[t].id], clock)
        /\ IsDelinquentByCount(loans[th[t].id], clock)

(* C25: every entry of the ledger of a loan with a valid configuration is at  *)
(* least one installment, and the ledger never has more entries than the loan *)
(* has installments.                                                          *)
C25_LedgerWithinSchedule ==
    \A k \in Keys :
        (Exists(k) /\ ValidConfig(loans[k])) =>
            /\ \A i \in 1..Len(loans[k].payments) :
                  loans[k].payments[i].Amount >= loans[k].weeklyPayment
            /\ Len(loans[k].payments) <= loans[k].totalWeeks

====
